---- MODULE Spec2Model ----
(***************************************************************************)
(* Model of j5.Basic.DatabaseWriteLock: the process-wide database write    *)
(* lock (get_db_lock / release_db_lock) built on a threading.Condition and *)
(* the module-level dictionary thread_busy.                                *)
(*                                                                         *)
(* Time is a discrete clock; one unit stands for LOCK_WARNING_TIMEOUT      *)
(* (30 s), so MAX_LOCK_WAIT_TIMEOUT (120 s) is 4 units.                     *)
(***************************************************************************)
EXTENDS Integers, Sequences, FiniteSets, TLC

\* ---- bounds of the model ------------------------------------------------
NumThreads == 2
MaxTime == 5
MaxNest == 2
MaxInject == 1
MaxRetry == 2
MaxLate == 8

\* ---- program constants (DatabaseWriteLock.py:20-21, in units of 30 s) ---
MAX_LOCK_WAIT_TIMEOUT == 4
LOCK_WARNING_TIMEOUT == 1

Threads == 1..NumThreads
\* The threads of the process: those of Threads and one more, which makes
\* calls only where three threads are needed.
Pool == 1..(NumThreads + 1)
None == 0
ObjIds == 1..(NumThreads + 3)

\* The value of a list cell that no name refers to.
NoList == [id |-> None, at |-> 0, cnt |-> 0, warned |-> FALSE]

VARIABLES
  now,              \* time.time()
  heap,             \* the list objects [holder id, acquired_at, count, warned]
  thread_busy,      \* thread_busy.get(None, None): None or a list object
  mutex,            \* owner of database_write_lock (an RLock), or None
  depth,            \* recursion level of the RLock
  waiters,          \* the Condition's queue of threads blocked in wait()
  notified,         \* waiters released by notify() that have not run yet
  pc,               \* position of each thread
  rstack,           \* calling frames of the recursive release_db_lock
  busy_op,          \* local busy_op of the running call
  busy_op_backup,   \* local busy_op_backup of release_db_lock
  start_time,       \* local start_time of get_db_lock
  check_start_time, \* local check_start_time of get_db_lock
  email,            \* threads whose email_msg and dump_file_contents are set
  pending,          \* threads with an asynchronous RuntimeError not yet raised
  injected,         \* number of cancellations requested from outside the lock
  budget,           \* how many of them the environment may request
  cnt0,             \* the caller's count when its release_db_lock began
  held,             \* returns from get_db_lock not yet matched by a release
  hit,              \* threads displaced by a takeover or sent a cancellation
  warned_eps,       \* episodes the running get_db_lock has warned about
  quiet,            \* threads whose running call found a warning due for an
                    \* episode it had warned about, and stayed silent
  seen_at,          \* when the waiter first saw the episode it now watches
  attempt,          \* how the takeover steps of the running get_db_lock went
  rewarn            \* some get_db_lock warned twice about one episode

lockvars == <<heap, thread_busy, mutex, depth, waiters, notified>>
ctlvars == <<pc, rstack>>
localvars == <<busy_op, busy_op_backup, start_time, check_start_time, email>>
envvars == <<pending, injected, budget>>
ghostvars == <<cnt0, held, hit, warned_eps, quiet, seen_at, attempt,
              rewarn>>

vars == <<now, lockvars, ctlvars, localvars, envvars, ghostvars>>

\* ---- helpers -------------------------------------------------------------
Range(f) == {f[x] : x \in DOMAIN f}

Refs(tb, bo, bk) == ({tb} \cup Range(bo) \cup Range(bk)) \ {None}

\* Python frees a list once no name refers to it.
Collect(h, tb, bo, bk) ==
  [o \in ObjIds |-> IF o \in Refs(tb, bo, bk) THEN h[o] ELSE NoList]

\* A fresh list object.
Alloc == CHOOSE o \in ObjIds : o \notin Refs(thread_busy, busy_op, busy_op_backup)

Min0(n) == IF n > 0 THEN n - 1 ELSE 0

\* A takeover that keeps the time of the call instead of a fresh one.
NewEntry_stale(t) ==
  [id |-> t, at |-> start_time[t], cnt |-> 1, warned |-> FALSE]

\* [current_id, time.time(), 1, False]
NewEntry(t) == [id |-> t, at |-> now, cnt |-> 1, warned |-> FALSE]

\* busy_op[:2] == now_busy_op[:2]
SameOp(a, b) == heap[a].id = heap[b].id /\ heap[a].at = heap[b].at

\* A reentrant acquire that leaves the count alone.
Incr_none(c) == c

\* thread_busy[None][2] += 1
Incr(c) == c + 1

\* busy_op[2] -= 1
Decr(c) == c - 1

\* A release that drops the entry one level early.
UsedUp_early(c) == c <= 1

\* busy_op[2] <= 0
UsedUp(c) == c <= 0

\* The hard deadline measured from the last check instead of the start.
Expired_sinceCheck(t) == now - check_start_time[t] > MAX_LOCK_WAIT_TIMEOUT

\* time.time() - start_time > max_wait_for_exclusive_lock
Expired(t) == now - start_time[t] > MAX_LOCK_WAIT_TIMEOUT

\* A warning that is due as soon as the waiter runs.
WarnDue_atOnce(t) == TRUE

\* time.time() - check_start_time > warning_timeout
WarnDue(t) == now - check_start_time[t] > LOCK_WARNING_TIMEOUT

\* A warning that does not look at the flag.
NotWarned_any(o) == TRUE

\* not busy_op[3]
NotWarned(o) == ~heap[o].warned

\* busy_op and busy_op[0] == current_id, read from the table
Holder == IF thread_busy = None THEN None ELSE heap[thread_busy].id

\* The module as imported (lines 15-19), every thread outside the lock's
\* functions.
Fresh ==
  /\ now = 0
  /\ mutex = None
  /\ depth = 0
  /\ waiters = <<>>
  /\ notified = {}
  /\ pc = [t \in Pool |-> "idle"]
  /\ rstack = [t \in Pool |-> <<>>]
  /\ busy_op = [t \in Pool |-> None]
  /\ busy_op_backup = [t \in Pool |-> None]
  /\ start_time = [t \in Pool |-> 0]
  /\ check_start_time = [t \in Pool |-> 0]
  /\ email = {}
  /\ pending = {}
  /\ injected = 0
  /\ cnt0 = [t \in Pool |-> 0]
  /\ hit = {}
  /\ warned_eps = [t \in Pool |-> {}]
  /\ quiet = {}
  /\ seen_at = [t \in Pool |-> 0]
  /\ attempt = [t \in Pool |-> "none"]
  /\ rewarn = FALSE

\* thread_busy = {}
Init ==
  /\ Fresh
  /\ heap = [o \in ObjIds |-> NoList]
  /\ thread_busy = None
  /\ held = [t \in Pool |-> 0]
  /\ budget = MaxInject

\* Thread h is inside c nested get_db_lock calls made at time 0.
HeldBy(h, c) ==
  /\ Fresh
  /\ heap = [o \in ObjIds |->
               IF o = 1
               THEN [id |-> h, at |-> 0, cnt |-> c, warned |-> FALSE]
               ELSE NoList]
  /\ thread_busy = 1
  /\ held = [t \in Pool |-> IF t = h THEN c ELSE 0]

\* ---- time ----------------------------------------------------------------
Tick ==
  /\ now < MaxTime
  /\ now' = now + 1
  /\ UNCHANGED <<lockvars, ctlvars, localvars, envvars, ghostvars>>

\* ---- get_db_lock ---------------------------------------------------------
\* The call ends: it returns, or an exception leaves get_db_lock.
GetEnds(t, returns) ==
  /\ pc' = [pc EXCEPT ![t] = "idle"]
  /\ held' = [held EXCEPT ![t] = IF returns THEN @ + 1 ELSE @]
  /\ busy_op' = [busy_op EXCEPT ![t] = None]
  /\ start_time' = [start_time EXCEPT ![t] = 0]
  /\ check_start_time' = [check_start_time EXCEPT ![t] = 0]
  /\ email' = email \ {t}
  /\ warned_eps' = [warned_eps EXCEPT ![t] = {}]
  /\ quiet' = quiet \ {t}
  /\ seen_at' = [seen_at EXCEPT ![t] = 0]
  /\ attempt' = [attempt EXCEPT ![t] = "none"]
  /\ UNCHANGED <<rstack, busy_op_backup, cnt0>>

\* Line 45: the call.
GetCall(t) ==
  /\ pc[t] = "idle"
  /\ held[t] < MaxNest
  /\ Holder = t => heap[thread_busy].cnt < MaxNest
  /\ pc' = [pc EXCEPT ![t] = "g_role"]
  /\ UNCHANGED <<now, lockvars, rstack, localvars, envvars, ghostvars>>

\* Lines 46-53: the SLAVE check.  ServerMode().mode is read at every call;
\* the stack capture of the SLAVE branch is not guarded by any try.
GRole(t) ==
  /\ pc[t] = "g_role"
  /\ \E m \in {"MASTER", "SLAVE"}, capture \in BOOLEAN :
       IF m = "SLAVE" /\ ~capture
       THEN GetEnds(t, FALSE)
       ELSE /\ pc' = [pc EXCEPT ![t] = "g_enter"]
            /\ UNCHANGED <<rstack, localvars, cnt0, held, warned_eps, quiet, attempt, seen_at>>
  /\ UNCHANGED <<now, lockvars, envvars, hit, rewarn>>

\* Line 123 under the mutex: the caller becomes the recorded holder.
TakeLock(t) ==
  /\ thread_busy' = Alloc
  /\ busy_op' = [busy_op EXCEPT ![t] = None]
  /\ heap' = Collect([heap EXCEPT ![Alloc] = NewEntry(t)],
                     thread_busy', busy_op', busy_op_backup)
  /\ mutex' = t
  /\ depth' = 1
  /\ pc' = [pc EXCEPT ![t] = "g_exit"]

LeaveQueue(t) == SelectSeq(waiters, LAMBDA u : u # t)

\* database_write_lock.wait(...): give up the mutex and join the queue.
WaitAgain(t) ==
  /\ waiters' = Append(LeaveQueue(t), t)
  /\ mutex' = None
  /\ depth' = 0
  /\ pc' = [pc EXCEPT ![t] = "g_wait"]

\* A holder that is not recognised as such.
Reentrant_never(t) == FALSE

\* Line 56: busy_op and busy_op[0] == current_id
Reentrant(t) == Holder = t

\* Lines 54-67: enter the mutex; reentrant return, free lock, or first wait.
GEnter(t) ==
  /\ pc[t] = "g_enter"
  /\ mutex = None
  /\ IF Reentrant(t)
     THEN /\ heap' = [heap EXCEPT ![thread_busy].cnt = Incr(@)]
          /\ mutex' = t
          /\ depth' = 1
          /\ pc' = [pc EXCEPT ![t] = "g_exit"]
          /\ UNCHANGED <<thread_busy, waiters, busy_op, start_time,
                         check_start_time, seen_at>>
     ELSE IF thread_busy # None
     THEN /\ busy_op' = [busy_op EXCEPT ![t] = thread_busy]
          /\ start_time' = [start_time EXCEPT ![t] = now]
          /\ check_start_time' = [check_start_time EXCEPT ![t] = now]
          /\ seen_at' = [seen_at EXCEPT ![t] = now]
          /\ WaitAgain(t)
          /\ UNCHANGED <<heap, thread_busy>>
     ELSE /\ TakeLock(t)
          /\ UNCHANGED <<waiters, start_time, check_start_time, seen_at>>
  /\ UNCHANGED <<now, notified, rstack, busy_op_backup, email, envvars,
                 cnt0, held, hit, warned_eps, quiet, attempt, rewarn>>

\* wait() returns: the waiter was notified or its timeout
\* warning_timeout - (time.time() - check_start_time) ran out, and it has the
\* mutex again.
CanWake(t) ==
  /\ pc[t] = "g_wait"
  /\ mutex = None
  /\ \/ t \in notified
     \/ now - check_start_time[t] >= LOCK_WARNING_TIMEOUT

\* Lines 72-104: how far the takeover steps get.  The stack capture (lines
\* 75-76) raises, or thread_async_raise (line 81) raises and its handler
\* raises TypeError on line 84 ("%e" applied to the exception), or
\* creole2xhtml (line 96) raises, or the report is composed; line 103
\* catches all three failures.
Outcome(capture, kill, render) ==
  IF ~capture THEN "capture_failed"
  ELSE IF ~kill THEN "kill_failed"
  ELSE IF ~render THEN "render_failed"
  ELSE "reported"

\* Lines 71-105 and 123: the forced takeover.  find_thread_frame /
\* format_traceback (capture), thread_async_raise (kill) and creole2xhtml
\* (render) each succeed or raise; email_msg and dump_file_contents are set
\* on lines 96-102 only when none of them raised.
Takeover(t, capture, kill, render) ==
  LET victim == heap[busy_op[t]].id IN
  /\ pending' = IF capture /\ kill THEN pending \cup {victim} ELSE pending
  /\ email' = IF Outcome(capture, kill, render) = "reported"
              THEN email \cup {t} ELSE email
  /\ attempt' = [attempt EXCEPT ![t] = Outcome(capture, kill, render)]
  /\ hit' = hit \cup {victim}
  /\ TakeLock(t)
  /\ waiters' = LeaveQueue(t)
  /\ UNCHANGED <<start_time, check_start_time, warned_eps, quiet, seen_at,
                 rewarn>>

\* Lines 106-117: the warning, guarded by the flag of the entry.
Warn(t, capture) ==
  LET bo == busy_op[t]
      ep == <<heap[bo].id, heap[bo].at>> IN
  /\ IF NotWarned(bo) /\ capture
     THEN /\ heap' = [heap EXCEPT ![bo].warned = TRUE]
          /\ warned_eps' = [warned_eps EXCEPT ![t] = @ \cup {ep}]
          /\ rewarn' = (rewarn \/ ep \in warned_eps[t])
          /\ UNCHANGED quiet
     ELSE /\ quiet' = IF ep \in warned_eps[t] THEN quiet \cup {t} ELSE quiet
          /\ UNCHANGED <<heap, warned_eps, rewarn>>
  /\ check_start_time' = [check_start_time EXCEPT ![t] = now]
  /\ WaitAgain(t)
  /\ UNCHANGED <<thread_busy, busy_op, start_time, email, pending, hit,
                 seen_at, attempt>>

\* Lines 118-120: another entry, or none, is in the table.
Reobserve(t) ==
  /\ check_start_time' = [check_start_time EXCEPT ![t] = now]
  /\ IF thread_busy = None
     THEN /\ TakeLock(t)
          /\ waiters' = LeaveQueue(t)
          /\ UNCHANGED seen_at
     ELSE /\ busy_op' = [busy_op EXCEPT ![t] = thread_busy]
          /\ heap' = Collect(heap, thread_busy, busy_op', busy_op_backup)
          /\ seen_at' = [seen_at EXCEPT ![t] = now]
          /\ WaitAgain(t)
          /\ UNCHANGED thread_busy
  /\ UNCHANGED <<start_time, email, pending, hit, warned_eps, quiet, attempt, rewarn>>

\* Lines 68-120: one turn of the wait loop, run under the mutex that wait()
\* has taken again.
LoopTurn(t) ==
  /\ notified' = notified \ {t}
  /\ IF thread_busy # None /\ SameOp(busy_op[t], thread_busy)
     THEN IF Expired(t)
          THEN \E capture, kill, render \in BOOLEAN :
                 Takeover(t, capture, kill, render)
          ELSE IF WarnDue(t)
          THEN \E capture \in BOOLEAN : Warn(t, capture)
          ELSE /\ WaitAgain(t)
               /\ UNCHANGED <<heap, thread_busy, busy_op, start_time,
                              check_start_time, email, pending, hit,
                              warned_eps, quiet, attempt, seen_at, rewarn>>
     ELSE Reobserve(t)
  /\ UNCHANGED <<now, rstack, busy_op_backup, injected, budget, cnt0, held>>

\* Lines 64-120: wait() returns and the loop takes one turn, up to the next
\* wait() or to line 123; no other thread can enter the mutex in between.
GWake(t) ==
  /\ CanWake(t)
  /\ LoopTurn(t)

\* Line 67 alone: wait() returns holding the mutex again.
WaitReturns(t) ==
  /\ CanWake(t)
  /\ mutex' = t
  /\ depth' = 1
  /\ pc' = [pc EXCEPT ![t] = "g_check"]
  /\ UNCHANGED <<now, heap, thread_busy, waiters, notified, rstack,
                 localvars, envvars, ghostvars>>

\* Lines 68-120 alone: the turn of the loop that follows.
LoopBody(t) ==
  /\ pc[t] = "g_check"
  /\ LoopTurn(t)

\* The turn of the loop about to run calls find_thread_frame and
\* format_traceback (lines 75-76 or 110-111), and on the takeover path
\* thread_async_raise and creole2xhtml (lines 81 and 96).
SlowCallDue(t) ==
  /\ thread_busy # None
  /\ SameOp(busy_op[t], thread_busy)
  /\ Expired(t) \/ (WarnDue(t) /\ NotWarned(busy_op[t]))

\* Leaving the with block of get_db_lock (lines 59 and 123-125).
GExit(t) ==
  /\ pc[t] = "g_exit"
  /\ mutex' = None
  /\ depth' = 0
  /\ IF t \in email
     THEN /\ pc' = [pc EXCEPT ![t] = "g_email"]
          /\ UNCHANGED <<rstack, localvars, cnt0, held, warned_eps, quiet, attempt, seen_at>>
     ELSE GetEnds(t, TRUE)
  /\ UNCHANGED <<now, heap, thread_busy, waiters, notified, envvars, hit,
                 rewarn>>

\* Lines 125-130: the report to the administrator, outside the mutex.  The
\* notifier is missing (logged) or sends the mail, or email_admin raises.
GEmail(t) ==
  /\ pc[t] = "g_email"
  /\ \E raises \in BOOLEAN : GetEnds(t, ~raises)
  /\ UNCHANGED <<now, lockvars, envvars, hit, rewarn>>

\* ---- release_db_lock -----------------------------------------------------
\* The call ends: the outermost frame returns or an exception leaves it.
RelEnds(t) ==
  /\ pc' = [pc EXCEPT ![t] = "idle"]
  /\ rstack' = [rstack EXCEPT ![t] = <<>>]
  /\ held' = [held EXCEPT ![t] = Min0(@)]
  /\ cnt0' = [cnt0 EXCEPT ![t] = 0]

\* Leave one with block of the RLock.
ExitWith ==
  /\ depth' = depth - 1
  /\ mutex' = IF depth = 1 THEN None ELSE mutex

\* The locals of a frame that is left are dead.
DropLocals(t) ==
  /\ busy_op' = [busy_op EXCEPT ![t] = None]
  /\ busy_op_backup' = [busy_op_backup EXCEPT ![t] = None]
  /\ heap' = Collect(heap, thread_busy, busy_op', busy_op_backup')
  /\ UNCHANGED <<start_time, check_start_time, email>>

\* Line 138 raises TypeError: the call ends at the copy of the entry.
RaisesTypeError(t) == pc[t] = "r_snap" /\ pc'[t] = "idle"

\* Line 132: the call.
RelCall(t) ==
  /\ pc[t] = "idle"
  /\ pc' = [pc EXCEPT ![t] = "r_enter"]
  /\ cnt0' = [cnt0 EXCEPT ![t] =
                 IF Holder = t THEN heap[thread_busy].cnt ELSE 0]
  /\ UNCHANGED <<now, lockvars, rstack, localvars, envvars, held, hit,
                 warned_eps, quiet, attempt, seen_at, rewarn>>

\* Line 135: with (database_write_lock), reentrant for the owner.
REnter(t) ==
  /\ pc[t] = "r_enter"
  /\ mutex \in {None, t}
  /\ mutex' = t
  /\ depth' = depth + 1
  /\ pc' = [pc EXCEPT ![t] = "r_snap"]
  /\ UNCHANGED <<now, heap, thread_busy, waiters, notified, rstack,
                 localvars, envvars, ghostvars>>

\* Lines 136-138: read the entry and copy it; busy_op[:] of None is a
\* TypeError, which no handler of release_db_lock catches.
RSnap(t) ==
  /\ pc[t] = "r_snap"
  /\ IF thread_busy = None
     THEN /\ RelEnds(t)
          /\ mutex' = None
          /\ depth' = 0
          /\ UNCHANGED <<heap, busy_op, busy_op_backup>>
     ELSE /\ busy_op' = [busy_op EXCEPT ![t] = thread_busy]
          /\ busy_op_backup' = [busy_op_backup EXCEPT ![t] = Alloc]
          /\ heap' = [heap EXCEPT ![Alloc] = heap[thread_busy]]
          /\ pc' = [pc EXCEPT ![t] = "r_dec"]
          /\ UNCHANGED <<mutex, depth, rstack, held, cnt0>>
  /\ UNCHANGED <<now, thread_busy, waiters, notified, start_time,
                 check_start_time, email, envvars, hit, warned_eps, quiet, attempt, seen_at, rewarn>>

\* A release that takes any entry for the caller's own.
OwnEntry_any(t) == TRUE

\* Line 141: busy_op[0] == current_id
OwnEntry(t) == heap[busy_op[t]].id = t

\* Lines 141-142: the holder decrements its count.
RDec(t) ==
  /\ pc[t] = "r_dec"
  /\ IF OwnEntry(t)
     THEN /\ heap' = [heap EXCEPT ![busy_op[t]].cnt = Decr(@)]
          /\ pc' = [pc EXCEPT ![t] = "r_pop"]
     ELSE /\ pc' = [pc EXCEPT ![t] = "r_tryend"]
          /\ UNCHANGED heap
  /\ UNCHANGED <<now, thread_busy, mutex, depth, waiters, notified, rstack,
                 localvars, envvars, ghostvars>>

\* Lines 143-144: remove the entry once the count is used up.
RPop(t) ==
  /\ pc[t] = "r_pop"
  /\ IF UsedUp(heap[busy_op[t]].cnt)
     THEN /\ thread_busy' = None
          /\ pc' = [pc EXCEPT ![t] = "r_notify"]
     ELSE /\ pc' = [pc EXCEPT ![t] = "r_tryend"]
          /\ UNCHANGED thread_busy
  /\ UNCHANGED <<now, heap, mutex, depth, waiters, notified, rstack,
                 localvars, envvars, ghostvars>>

\* Condition.notify(): release the first waiter of the queue, if any.
Notify ==
  IF waiters = <<>>
  THEN UNCHANGED <<waiters, notified>>
  ELSE /\ notified' = notified \cup {Head(waiters)}
       /\ waiters' = Tail(waiters)

\* Line 145.
RNotify(t) ==
  /\ pc[t] = "r_notify"
  /\ Notify
  /\ pc' = [pc EXCEPT ![t] = "r_tryend"]
  /\ UNCHANGED <<now, heap, thread_busy, mutex, depth, rstack, localvars,
                 envvars, ghostvars>>

\* The end of the inner try block (line 145 to 146).
RTryEnd(t) ==
  /\ pc[t] = "r_tryend"
  /\ pc' = [pc EXCEPT ![t] = "r_exit"]
  /\ UNCHANGED <<now, lockvars, rstack, localvars, envvars, ghostvars>>

\* A frame returns to the frame that called it from a handler (lines 148
\* and 151), or the outermost frame returns to the caller.
FrameReturns(t) ==
  IF rstack[t] = <<>>
  THEN RelEnds(t)
  ELSE /\ rstack' = [rstack EXCEPT ![t] = SubSeq(@, 1, Len(@) - 1)]
       /\ pc' = [pc EXCEPT ![t] =
                   IF rstack[t][Len(rstack[t])] = "inner"
                   THEN "r_exit" ELSE "r_ret"]
       /\ UNCHANGED <<held, cnt0>>

\* Leaving the with block of line 135 normally, then returning.
RExit(t) ==
  /\ pc[t] = "r_exit"
  /\ ExitWith
  /\ DropLocals(t)
  /\ FrameReturns(t)
  /\ UNCHANGED <<now, thread_busy, waiters, notified, envvars, hit,
                 warned_eps, quiet, attempt, seen_at, rewarn>>

\* The end of the outer handler after its retry returned (line 151).
RRet(t) ==
  /\ pc[t] = "r_ret"
  /\ FrameReturns(t)
  /\ UNCHANGED <<now, lockvars, localvars, envvars, hit, warned_eps, quiet, attempt, seen_at, rewarn>>

\* Line 147: the inner handler puts the copy back.
RHInner(t) ==
  /\ pc[t] = "r_h_inner"
  /\ thread_busy' = busy_op_backup[t]
  /\ heap' = Collect(heap, thread_busy', busy_op, busy_op_backup)
  /\ pc' = [pc EXCEPT ![t] = "r_h_call"]
  /\ UNCHANGED <<now, mutex, depth, waiters, notified, rstack, localvars,
                 envvars, ghostvars>>

\* Line 148: the inner handler retries, inside the with block.
RHCall(t) ==
  /\ pc[t] = "r_h_call"
  /\ rstack' = [rstack EXCEPT ![t] = Append(@, "inner")]
  /\ pc' = [pc EXCEPT ![t] = "r_enter"]
  /\ DropLocals(t)
  /\ UNCHANGED <<now, thread_busy, mutex, depth, waiters, notified, envvars,
                 ghostvars>>

\* Lines 150-151: the outer handler logs and retries, outside the with block.
RHOuter(t) ==
  /\ pc[t] = "r_h_outer"
  /\ rstack' = [rstack EXCEPT ![t] = Append(@, "outer")]
  /\ pc' = [pc EXCEPT ![t] = "r_enter"]
  /\ UNCHANGED <<now, lockvars, localvars, envvars, ghostvars>>

\* ---- asynchronous RuntimeError ------------------------------------------
\* ThreadRaise.thread_async_raise used by any other part of the process.
AsyncRaise(t) ==
  /\ injected < budget
  /\ t \notin pending
  /\ injected' = injected + 1
  /\ pending' = pending \cup {t}
  /\ hit' = hit \cup {t}
  /\ UNCHANGED <<now, lockvars, ctlvars, localvars, budget, cnt0, held,
                 warned_eps, quiet, attempt, seen_at, rewarn>>

RECURSIVE StripOuter(_)
StripOuter(s) ==
  IF s # <<>> /\ s[Len(s)] = "outer"
  THEN StripOuter(SubSeq(s, 1, Len(s) - 1))
  ELSE s

\* The RuntimeError is raised in get_db_lock, where only the with block is
\* between it and the caller.
RaiseInGet(t) ==
  /\ pc[t] \in {"g_role", "g_enter", "g_wait", "g_exit", "g_email"}
  /\ pc[t] = "g_wait" => CanWake(t)
  /\ GetEnds(t, FALSE)
  /\ heap' = Collect(heap, thread_busy, busy_op', busy_op_backup)
  /\ waiters' = LeaveQueue(t)
  /\ notified' = notified \ {t}
  /\ IF pc[t] = "g_exit"
     THEN mutex' = None /\ depth' = 0
     ELSE UNCHANGED <<mutex, depth>>
  /\ UNCHANGED thread_busy

\* The RuntimeError is raised in release_db_lock inside the outer try: the
\* with block, if entered, is left and the outer handler runs (line 149).
RaiseInOuterTry(t) ==
  /\ pc[t] \in {"r_enter", "r_snap", "r_exit", "r_h_inner", "r_h_call"}
  /\ IF pc[t] = "r_enter" THEN UNCHANGED <<mutex, depth>> ELSE ExitWith
  /\ DropLocals(t)
  /\ pc' = [pc EXCEPT ![t] = "r_h_outer"]
  /\ UNCHANGED <<thread_busy, waiters, notified, rstack, cnt0, held,
                 warned_eps, quiet, attempt, seen_at>>

\* The RuntimeError is raised inside the inner try (line 146).
RaiseInInnerTry(t) ==
  /\ pc[t] \in {"r_dec", "r_pop", "r_notify", "r_tryend"}
  /\ pc' = [pc EXCEPT ![t] = "r_h_inner"]
  /\ UNCHANGED <<lockvars, rstack, localvars, cnt0, held, warned_eps, quiet, attempt, seen_at>>

\* The RuntimeError is raised inside the outer handler: it leaves the frame
\* and every calling frame that is in its own outer handler.
RaiseInOuterHandler(t) ==
  LET s == StripOuter(rstack[t]) IN
  /\ pc[t] \in {"r_h_outer", "r_ret"}
  /\ IF s = <<>>
     THEN /\ RelEnds(t)
          /\ UNCHANGED <<mutex, depth>>
     ELSE /\ rstack' = [rstack EXCEPT ![t] = SubSeq(s, 1, Len(s) - 1)]
          /\ pc' = [pc EXCEPT ![t] = "r_h_outer"]
          /\ ExitWith
          /\ UNCHANGED <<held, cnt0>>
  /\ UNCHANGED <<heap, thread_busy, waiters, notified, localvars, warned_eps, quiet, attempt, seen_at>>

\* The pending RuntimeError is raised where the thread now is.
Deliver(t) ==
  /\ t \in pending
  /\ pending' = pending \ {t}
  /\ \/ /\ pc[t] = "idle"
        /\ UNCHANGED <<lockvars, ctlvars, localvars, cnt0, held, warned_eps, quiet, attempt, seen_at>>
     \/ RaiseInGet(t)
     \/ RaiseInOuterTry(t)
     \/ RaiseInInnerTry(t)
     \/ RaiseInOuterHandler(t)
  /\ UNCHANGED <<now, injected, budget, hit, rewarn>>

\* ---- the system ----------------------------------------------------------
Next ==
  \/ Tick
  \/ \E t \in Threads : GetCall(t)
  \/ \E t \in Threads : GRole(t)
  \/ \E t \in Threads : GEnter(t)
  \/ \E t \in Threads : GWake(t)
  \/ \E t \in Threads : GExit(t)
  \/ \E t \in Threads : GEmail(t)
  \/ \E t \in Threads : RelCall(t)
  \/ \E t \in Threads : REnter(t)
  \/ \E t \in Threads : RSnap(t)
  \/ \E t \in Threads : RDec(t)
  \/ \E t \in Threads : RPop(t)
  \/ \E t \in Threads : RNotify(t)
  \/ \E t \in Threads : RTryEnd(t)
  \/ \E t \in Threads : RExit(t)
  \/ \E t \in Threads : RRet(t)
  \/ \E t \in Threads : RHInner(t)
  \/ \E t \in Threads : RHCall(t)
  \/ \E t \in Threads : RHOuter(t)
  \/ \E t \in Threads : AsyncRaise(t)
  \/ \E t \in Threads : Deliver(t)

Spec == Init /\ [][Next]_vars

\* One thread alone calls get_db_lock and release_db_lock, never releasing
\* more often than it acquired.
SoloNext ==
  \/ Tick
  \/ GetCall(1)
  \/ GRole(1)
  \/ GEnter(1)
  \/ GExit(1)
  \/ held[1] > 0 /\ RelCall(1)
  \/ REnter(1)
  \/ RSnap(1)
  \/ RDec(1)
  \/ RPop(1)
  \/ RNotify(1)
  \/ RTryEnd(1)
  \/ RExit(1)

SoloSpec == Init /\ [][SoloNext]_vars

\* Thread 1 holds the lock, at any nesting depth, and never comes back;
\* thread 2 calls get_db_lock.  Time passes and a thread that can run does.
HungInit ==
  /\ \E c \in 1..MaxNest : HeldBy(1, c)
  /\ budget = 0

HungNext ==
  \/ Tick
  \/ GetCall(2)
  \/ GRole(2)
  \/ GEnter(2)
  \/ GWake(2)
  \/ GExit(2)
  \/ GEmail(2)

HungSpec ==
  /\ HungInit
  /\ [][HungNext]_vars
  /\ WF_vars(Tick)
  /\ WF_vars(GWake(2))

\* Thread 1 is inside 1 to MaxNest nested get_db_lock calls; both threads
\* call release_db_lock, and up to MaxRetry RuntimeErrors are raised in them
\* at any point.
RelInit ==
  /\ \E c \in 1..MaxNest : HeldBy(1, c)
  /\ budget \in 0..MaxRetry

RelNext ==
  \/ \E t \in Threads : RelCall(t)
  \/ \E t \in Threads : REnter(t)
  \/ \E t \in Threads : RSnap(t)
  \/ \E t \in Threads : RDec(t)
  \/ \E t \in Threads : RPop(t)
  \/ \E t \in Threads : RNotify(t)
  \/ \E t \in Threads : RTryEnd(t)
  \/ \E t \in Threads : RExit(t)
  \/ \E t \in Threads : RRet(t)
  \/ \E t \in Threads : RHInner(t)
  \/ \E t \in Threads : RHCall(t)
  \/ \E t \in Threads : RHOuter(t)
  \/ \E t \in Threads : AsyncRaise(t)
  \/ \E t \in Threads : Deliver(t)

RelSpec == RelInit /\ [][RelNext]_vars

\* Thread 1 is inside its critical section and releases; the other threads
\* call get_db_lock and keep what they get.
WakeInit ==
  /\ \E c \in 1..MaxNest : HeldBy(1, c)
  /\ budget = 0

WakeNext ==
  \/ Tick
  \/ \E t \in Pool \ {1} : GetCall(t)
  \/ \E t \in Pool \ {1} : GRole(t)
  \/ \E t \in Pool \ {1} : GEnter(t)
  \/ \E t \in Pool \ {1} : GWake(t)
  \/ \E t \in Pool \ {1} : GExit(t)
  \/ \E t \in Pool \ {1} : GEmail(t)
  \/ held[1] > 0 /\ RelCall(1)
  \/ REnter(1)
  \/ RSnap(1)
  \/ RDec(1)
  \/ RPop(1)
  \/ RNotify(1)
  \/ RTryEnd(1)
  \/ RExit(1)

WakeSpec == WakeInit /\ [][WakeNext]_vars

\* The bounded wait of line 67 has run out and the turn of the loop that
\* follows would act on a deadline (line 71 or line 106).
Overdue(t) ==
  /\ pc[t] = "g_wait"
  /\ now - check_start_time[t] >= LOCK_WARNING_TIMEOUT
  /\ thread_busy # None
  /\ SameOp(busy_op[t], thread_busy)
  /\ Expired(t) \/ WarnDue(t)

\* Time passes, but not past a waiter that is overdue: a waiter whose wait
\* has run out is scheduled without delay.
PromptTick ==
  /\ now < MaxLate
  /\ \A t \in Pool : ~Overdue(t)
  /\ now' = now + 1
  /\ UNCHANGED <<lockvars, ctlvars, localvars, envvars, ghostvars>>

\* Thread 1 holds the lock and never comes back; thread 2 calls
\* get_db_lock and is scheduled without delay.
PromptNext ==
  \/ PromptTick
  \/ GetCall(2)
  \/ GRole(2)
  \/ GEnter(2)
  \/ GWake(2)
  \/ GExit(2)
  \/ GEmail(2)

PromptSpec == HungInit /\ [][PromptNext]_vars

\* Thread 1 holds the lock and never comes back; thread 2 calls
\* get_db_lock, with the return of wait() and the turn of the loop that
\* follows it as separate steps.
StepNext ==
  \/ Tick
  \/ GetCall(2)
  \/ GRole(2)
  \/ GEnter(2)
  \/ WaitReturns(2)
  \/ LoopBody(2)
  \/ GExit(2)
  \/ GEmail(2)

StepSpec == HungInit /\ [][StepNext]_vars

\* As WakeSpec, and the RuntimeError that a takeover sends to thread 1 is
\* raised in it at any point of its releases.
DisplacedNext ==
  \/ WakeNext
  \/ RRet(1)
  \/ RHInner(1)
  \/ RHCall(1)
  \/ RHOuter(1)
  \/ Deliver(1)

DisplacedSpec == WakeInit /\ [][DisplacedNext]_vars

TypeOK ==
  /\ now \in 0..MaxLate
  /\ thread_busy \in ObjIds \cup {None}
  /\ mutex \in Pool \cup {None}
  /\ (mutex = None) = (depth = 0)

\* ---- claims --------------------------------------------------------------
\* A thread is inside its critical section.
InCS(t) == held[t] > 0

C2_CountIsNet ==
  pc[1] = "idle" =>
    IF held[1] = 0
    THEN thread_busy = None
    ELSE Holder = 1 /\ heap[thread_busy].cnt = held[1]

\* A release after nested acquires has taken one level off.
C2_Witness ==
  /\ pc[1] = "r_exit"
  /\ cnt0[1] = 2
  /\ held[1] = 2
  /\ Holder = 1
  /\ heap[thread_busy].cnt = 1

\* Thread b becomes the recorded holder in this step although the table
\* holds another thread's entry: a forced takeover.
TakesOver(b) ==
  /\ pc[b] = "g_wait"
  /\ pc'[b] = "g_exit"
  /\ thread_busy # None

\* C3: a waiter is not made holder while the recorded holder's episode
\* (the time since its acquired_at) has not exceeded
\* max_wait_for_exclusive_lock.
C3_NoEarlyTakeover ==
  [][\A b \in Threads :
       TakesOver(b) => now - heap[thread_busy].at > MAX_LOCK_WAIT_TIMEOUT]_vars

\* C4: when the holder never releases, a waiter that started early enough
\* for its deadline to fall within the modelled time eventually becomes the
\* recorded holder, and the takeover writes a whole new entry
\* [waiter, now, 1, False] whatever the old count was.
C4_HungHolderIsReplaced ==
  /\ (pc[2] = "g_wait" /\ Holder = 1
        /\ start_time[2] + MAX_LOCK_WAIT_TIMEOUT < MaxTime)
       ~> (Holder = 2)
  /\ [][\A b \in Threads :
          TakesOver(b) =>
            /\ thread_busy' # thread_busy
            /\ heap'[thread_busy'] =
                 [id |-> b, at |-> now, cnt |-> 1, warned |-> FALSE]]_vars

\* Thread 2 has replaced the entry of thread 1, which is still inside two
\* nested acquisitions.
C4_Witness ==
  /\ held[1] = 2
  /\ 1 \in hit
  /\ Holder = 2
  /\ heap[thread_busy].cnt = 1
  /\ heap[thread_busy].at > MAX_LOCK_WAIT_TIMEOUT

GetPcs == {"g_role", "g_enter", "g_wait", "g_exit", "g_email"}

\* C5: every call of get_db_lock ends with the caller recorded as holder;
\* none ends in a failure.
C5_GetAlwaysAcquires ==
  [][\A t \in Threads :
       pc[t] \in GetPcs /\ pc'[t] = "idle" => Holder' = t]_vars

RelPcs == {"r_enter", "r_snap", "r_dec", "r_pop", "r_notify", "r_tryend",
           "r_exit", "r_ret", "r_h_inner", "r_h_call", "r_h_outer"}

\* C7: a release_db_lock call by the holder, interrupted by RuntimeErrors at
\* any points, ends with exactly one decrement of the count it started from;
\* if that count was 1 the key ends up free.
C7_ExactlyOneDecrement ==
  [][\A t \in Threads :
       pc[t] \in RelPcs /\ pc'[t] = "idle" /\ cnt0[t] > 0 =>
         IF cnt0[t] = 1
         THEN thread_busy' = None
         ELSE Holder' = t /\ heap'[thread_busy'].cnt = cnt0[t] - 1]_vars

\* C8: whenever no thread holds the table mutex, the table has no entry or
\* an entry of one holder with count >= 1.
C8_TableWellFormed ==
  mutex = None =>
    \/ thread_busy = None
    \/ heap[thread_busy].id \in Threads /\ heap[thread_busy].cnt >= 1

\* C9: a step of release_db_lock by a thread that was not the recorded
\* holder when it called, and that no RuntimeError was sent to, raises
\* nothing, leaves the table as it is and wakes no waiter.
C9_NonHolderReleaseIsNoOp ==
  [][\A t \in Threads :
       pc[t] \in RelPcs /\ pc'[t] # pc[t] /\ cnt0[t] = 0 /\ t \notin hit =>
         /\ ~RaisesTypeError(t)
         /\ thread_busy' = thread_busy
         /\ thread_busy # None => heap'[thread_busy] = heap[thread_busy]
         /\ waiters' = waiters
         /\ notified' = notified]_vars

\* C10: when the recorded holder enters the mutex in get_db_lock it does not
\* wait: it goes on to return, the entry is the same list with the count
\* one higher and holder id, acquired_at and warned flag as before; the
\* waiters stay where they are and no report is queued.
C10_ReentrantGetNeverWaits ==
  [][\A t \in Threads :
       pc[t] = "g_enter" /\ pc'[t] # "g_enter" /\ Holder = t
         /\ t \notin pending =>
         /\ pc'[t] = "g_exit"
         /\ t \notin email'
         /\ thread_busy' = thread_busy
         /\ heap'[thread_busy] =
              [heap[thread_busy] EXCEPT !.cnt = heap[thread_busy].cnt + 1]
         /\ waiters' = waiters
         /\ notified' = notified]_vars

\* The holder re-entered a lock it has held for longer than the warning
\* period, which a queued waiter has warned about.
C10_Witness ==
  \E t \in Threads :
    /\ pc[t] = "g_exit"
    /\ Holder = t
    /\ heap[thread_busy].cnt = 2
    /\ heap[thread_busy].warned
    /\ now - heap[thread_busy].at > LOCK_WARNING_TIMEOUT
    /\ waiters # <<>>

\* C11: the deployment role does not influence locking.  The role is read
\* only by the check of lines 46-51, and when the role is not SLAVE that
\* check goes on to the mutex with nothing changed; so the lock states and
\* grants are the same for both roles exactly when every step of the check,
\* whatever the role, goes on to the mutex with the lock state unchanged.
C11_RoleDoesNotInfluence ==
  [][\A t \in Threads :
       pc[t] = "g_role" /\ pc'[t] # "g_role" /\ t \notin pending =>
         /\ pc'[t] = "g_enter"
         /\ UNCHANGED lockvars]_vars

\* C12: a waiter takes over an episode only when more than max_wait has
\* passed since that waiter first observed this episode.
C12_TakeoverAfterObservedMaxWait ==
  [][\A b \in Threads :
       TakesOver(b) => now - seen_at[b] > MAX_LOCK_WAIT_TIMEOUT]_vars

\* C13: the release that removes the entry wakes every thread then blocked
\* in the wait of get_db_lock.
C13_ReleaseWakesAll ==
  [][\A t \in Pool :
       pc[t] = "r_notify" /\ pc'[t] = "r_tryend" =>
         /\ waiters' = <<>>
         /\ \A w \in Range(waiters) : w \in notified']_vars

\* C14: a waiter that starts the takeover steps becomes the holder in that
\* mutex section with a new list [waiter, now, 1, False], whichever of the
\* steps failed.
C14_TakeoverUnconditional ==
  [][\A b \in Threads :
       attempt[b] = "none" /\ attempt'[b] # "none" =>
         /\ pc'[b] = "g_exit"
         /\ mutex' = b
         /\ thread_busy' # None
         /\ thread_busy' # thread_busy
         /\ heap'[thread_busy'] =
              [id |-> b, at |-> now, cnt |-> 1, warned |-> FALSE]]_vars

\* A waiter whose stack capture of the blocking thread failed holds the
\* lock, and the old holder is still inside its critical section.
C14_Witness ==
  \E b \in Threads :
    /\ pc[b] = "g_exit"
    /\ attempt[b] = "capture_failed"
    /\ mutex = b
    /\ Holder = b
    /\ heap[thread_busy].cnt = 1
    /\ \E a \in Threads \ {b} : InCS(a) /\ a \in hit /\ a \notin pending

\* C16: when thread_async_raise raises during a takeover, the report is
\* still composed and handed to the admin notifier.
C16_ReportAfterDeliveryFailure ==
  [][\A b \in Threads :
       attempt[b] = "none" /\ attempt'[b] = "kill_failed" =>
         b \in email' /\ pc'[b] = "g_exit"]_vars

\* C15: no failure of a collaborator ends get_db_lock with an exception:
\* a call that no RuntimeError was sent to ends by returning.
C15_FailuresAreOnlyLogged ==
  [][\A t \in Threads :
       pc[t] \in GetPcs /\ pc'[t] = "idle" /\ t \notin pending =>
         held'[t] = held[t] + 1]_vars

\* C17: whenever a thread is about to call a slow collaborator (stack
\* capture, cancellation, rendering, admin notification) it does not hold
\* the table mutex.
C17_NoSlowCallUnderMutex ==
  \A t \in Threads :
    \/ pc[t] = "g_check" /\ SlowCallDue(t)
    \/ pc[t] = "g_email"
    => mutex # t

C19_TakeoverWithinBound ==
  \A t \in Threads :
    /\ pc[t] = "g_wait" =>
         now - start_time[t] <= MAX_LOCK_WAIT_TIMEOUT + LOCK_WARNING_TIMEOUT
    /\ pc[t] = "g_exit" /\ attempt[t] # "none" =>
         /\ heap[thread_busy].at - start_time[t] > MAX_LOCK_WAIT_TIMEOUT
         /\ heap[thread_busy].at - start_time[t]
              <= MAX_LOCK_WAIT_TIMEOUT + LOCK_WARNING_TIMEOUT

\* The waiter took over at the bound and time has gone on since.
C19_Witness ==
  /\ pc[2] = "g_exit"
  /\ attempt[2] # "none"
  /\ Holder = 2
  /\ heap[thread_busy].at - start_time[2] =
       MAX_LOCK_WAIT_TIMEOUT + LOCK_WARNING_TIMEOUT
  /\ now > heap[thread_busy].at
  /\ now > MAX_LOCK_WAIT_TIMEOUT + LOCK_WARNING_TIMEOUT + 1

\* C20: while another thread is the recorded holder, no step of a
\* release_db_lock call of a displaced thread changes the holder's entry
\* (holder, acquired_at, count) or wakes a waiter.
C20_DisplacedReleaseLeavesHolder ==
  [][\A a \in Pool :
       a \in hit /\ pc[a] \in RelPcs /\ pc'[a] # pc[a]
         /\ Holder \in Pool \ {a} =>
         /\ thread_busy' # None
         /\ heap'[thread_busy'].id = heap[thread_busy].id
         /\ heap'[thread_busy'].at = heap[thread_busy].at
         /\ heap'[thread_busy'].cnt = heap[thread_busy].cnt
         /\ waiters' = waiters
         /\ notified' = notified]_vars

\* The displaced thread 1 has been through an interrupted release, which
\* put a copy of the new holder's entry into the table, and through its
\* retry, while thread 3 is blocked in wait().
C20_Witness ==
  /\ 1 \in hit
  /\ held[1] > 0
  /\ pc[1] = "r_exit"
  /\ rstack[1] = <<"inner">>
  /\ Holder = 2
  /\ heap[thread_busy].cnt = 1
  /\ waiters = <<3>>

====
